---- MODULE Spec2Model ----
(***************************************************************************)
(* Conversational analytics agent (agent_api), metric engine               *)
(* (analytics_api) and formula service (formula_api).                      *)
(*                                                                         *)
(* Five specifications over one set of variables:                          *)
(*   Spec        one chat turn of agent_api: POST /chat                    *)
(*   SpecDate    agent_api.validate_date applied to one date string, and   *)
(*               once more to what it returned                             *)
(*   SpecEngine  analytics_api GET /analytics and formula_api POST /compute*)
(*   SpecCatalog agent_api.get_portfolios and get_benchmarks               *)
(*   SpecConc    chat turns of agent_api interleaved on worker threads     *)
(*                                                                         *)
(* Encoding of Python values.  A name field of the extracted parameters is *)
(* a string, with NULL standing for JSON null / an absent key and "" for   *)
(* the empty string; `params.get(k)` is falsy for both.  A date field is a *)
(* record describing the text of the string (see DateStr).  The metrics    *)
(* field is a record [kind, items] so that an absent key, JSON null and a  *)
(* list stay distinct, as they are for `params.get("metrics", [])`.        *)
(***************************************************************************)
EXTENDS Integers, Sequences, FiniteSets, TLC

VARIABLES
    \* ---- agent_api: one chat turn
    pc,            \* "ready": request received; "done": chat() returned or raised
    request,       \* ChatRequest: [history_ok]
    store,         \* the supabase client and what its two tables answer
    oracle,        \* what the language model call yields inside parse_with_llm
    params,        \* value returned by parse_with_llm
    missing,       \* the missing list handed to generate_response (as a set)
    backendCalls,  \* query_params of every requests.get(ANALYTICS_API_URL) made
    composed,      \* the triple returned by generate_response
    response,      \* what the caller of /chat receives
    \* ---- agent_api.validate_date
    shortYear,     \* platform: strftime("%Y") writes years below 1000 without leading zeros
    dateIn, dateOut, datePc,
    dateAgain,     \* validate_date applied to the value it returned
    \* ---- agent_api.get_portfolios / get_benchmarks
    catPortfolios, catBenchmarks,
    \* ---- agent_api.chat served on several worker threads
    turnIn,        \* per turn: request, store reply, oracle reply, backend reply
    turn,          \* per turn: position in chat() and its local names
    moduleState,   \* the module-level objects of agent_api
    reads, writes, \* per turn: the objects it has read / written so far
    \* ---- analytics_api / formula_api
    engReq, engResp, fReq, fResp

chatVars == <<pc, request, store, oracle, params, missing, backendCalls, composed, response>>
dateVars == <<shortYear, dateIn, dateOut, datePc, dateAgain>>
engVars  == <<engReq, engResp, fReq, fResp>>
catVars  == <<catPortfolios, catBenchmarks>>
concVars == <<turnIn, turn, moduleState, reads, writes>>
vars     == <<chatVars, dateVars, engVars, catVars, concVars>>

(***************************************************************************)
(* Bounds of the model                                                     *)
(***************************************************************************)
MaxMetrics == 2       \* longest metrics list the oracle returns
MaxEngineMetrics == 2 \* longest metrics list sent to GET /analytics
MaxLen == 2           \* longest return series
MaxRows == 2          \* most rows a catalog table returns
NumTurns == 2         \* chat turns served at the same time

NULL == "<null>"
NONE == "<none>"

SeqsUpTo(S, n) == UNION { [1..k -> S] : k \in 0..n }

RECURSIVE SumSeq(_)
SumSeq(s) == IF s = <<>> THEN 0 ELSE Head(s) + SumSeq(Tail(s))

Range(s) == { s[i] : i \in DOMAIN s }

(***************************************************************************)
(* agent_api: static tables                                                *)
(***************************************************************************)
MetricNames == {"volatility", "beta", "sharpe_ratio", "tracking_error", "information_ratio"}

METRICS_REQUIREMENTS ==
    [ volatility        |-> {"portfolio_name", "start_date", "end_date"},
      beta              |-> {"portfolio_name", "benchmark_name", "start_date", "end_date"},
      sharpe_ratio      |-> {"portfolio_name", "risk_free_portfolio_name", "start_date", "end_date"},
      tracking_error    |-> {"portfolio_name", "benchmark_name", "start_date", "end_date"},
      information_ratio |-> {"portfolio_name", "benchmark_name", "start_date", "end_date"} ]

\* METRICS_REQUIREMENTS.get(metric, [])
Requirements(metric) ==
    IF metric \in DOMAIN METRICS_REQUIREMENTS THEN METRICS_REQUIREMENTS[metric] ELSE {}

FALLBACK_PORTFOLIOS ==
    <<"Growth Plus", "Global Dividend", "Secure Income", "Global Macro Opportunities">>

FALLBACK_BENCHMARKS == <<"Secure Income Benchmark", "MSCI World", "S&P 500">>

(***************************************************************************)
(* Date strings.  A string handed to validate_date is described by         *)
(*   kind  "ymd"     text of the shape <year>-<month>-<day>, all digits    *)
(*         "garbage" any other text                                        *)
(*         "num"     not a string at all (a JSON number)                   *)
(*         "null"    None                                                  *)
(*   y, m, d   the three numbers written                                   *)
(*   y4        the year is written with exactly four digits                *)
(*   pad       month and day are written with two digits each              *)
(***************************************************************************)
MINYEAR == 1
MAXYEAR == 9999

DateStr(y, m, d, y4, pad) == [kind |-> "ymd", y |-> y, m |-> m, d |-> d, y4 |-> y4, pad |-> pad]
NullDate    == [kind |-> "null",    y |-> 0, m |-> 0, d |-> 0, y4 |-> FALSE, pad |-> FALSE]
GarbageDate == [kind |-> "garbage", y |-> 0, m |-> 0, d |-> 0, y4 |-> FALSE, pad |-> FALSE]
NumberDate  == [kind |-> "num",     y |-> 0, m |-> 0, d |-> 0, y4 |-> FALSE, pad |-> FALSE]

IsLeap(y) == (y % 4 = 0 /\ y % 100 # 0) \/ y % 400 = 0

\* the proleptic Gregorian calendar of datetime
DaysInMonth(y, m) ==
    IF m = 2 THEN (IF IsLeap(y) THEN 29 ELSE 28)
    ELSE IF m \in {4, 6, 9, 11} THEN 30 ELSE 31

\* datetime.strptime(s, "%Y-%m-%d"): %Y takes exactly four digits, %m and %d
\* take one or two; the day must exist in the month.
StrptimeOk(s) ==
    /\ s.kind = "ymd"
    /\ s.y4
    /\ s.y \in MINYEAR..MAXYEAR
    /\ s.m \in 1..12
    /\ s.d \in 1..DaysInMonth(s.y, s.m)

\* dt.replace(day=28) + timedelta(days=4): day 32 of the month, i.e. day
\* 32 - DaysInMonth of the month that follows.
NextMonth(dt) ==
    IF dt.m = 12
    THEN [y |-> dt.y + 1, m |-> 1,        d |-> 32 - DaysInMonth(dt.y, dt.m)]
    ELSE [y |-> dt.y,     m |-> dt.m + 1, d |-> 32 - DaysInMonth(dt.y, dt.m)]

\* next_month - timedelta(days=next_month.day): the day before the first of
\* next_month's month.
EndOfMonth(next_month) ==
    IF next_month.m = 1
    THEN [y |-> next_month.y - 1, m |-> 12, d |-> 31]
    ELSE [y |-> next_month.y, m |-> next_month.m - 1,
          d |-> DaysInMonth(next_month.y, next_month.m - 1)]

\* end_of_month.strftime("%Y-%m-%d"): month and day always two digits; the
\* year has four digits from 1000 on, below that only where the platform pads
\* (glibc does not).
Strftime(dt, platformShort) ==
    DateStr(dt.y, dt.m, dt.d, (dt.y >= 1000) \/ ~platformShort, TRUE)

Returned(v) == [out |-> "return", val |-> v,        exc |-> NONE]
Raised(e)   == [out |-> "raise",  val |-> NullDate, exc |-> e]

\* validate_date(date_str).  ValueError is caught and becomes None; a
\* TypeError (argument not a string) and an OverflowError (the date after
\* 9999-12-31) are not ValueErrors and leave the function.
validate_date(date_str, platformShort) ==
    IF date_str.kind \in {"num", "null"} THEN Raised("TypeError")
    ELSE IF ~StrptimeOk(date_str) THEN Returned(NullDate)
    ELSE LET dt == [y |-> date_str.y, m |-> date_str.m, d |-> date_str.d]
             next_month == NextMonth(dt)
         IN  IF next_month.y > MAXYEAR THEN Raised("OverflowError")
             ELSE LET end_of_month == EndOfMonth(next_month)
                  IN  IF dt # end_of_month
                      THEN Returned(Strftime(end_of_month, platformShort))
                      ELSE Returned(date_str)

(***************************************************************************)
(* SpecDate: validate_date applied to one input                            *)
(***************************************************************************)
Years == {999, 2023, 2024, 1900, 2000, 9999}

\* A year from 1000 on is four digits however it is written; with month and
\* day both above 9 there is nothing to pad.
WellFormedText(s) ==
    /\ (s.y >= 1000 => s.y4)
    /\ ((s.m > 9 /\ s.d > 9) => s.pad)

DateInputs ==
    { s \in { DateStr(y, m, d, y4, pad) :
                y \in Years, m \in 0..13, d \in 0..32, y4 \in BOOLEAN, pad \in BOOLEAN } :
        WellFormedText(s) }
    \cup {GarbageDate, NumberDate, NullDate}

NoDateOut == [out |-> "none", val |-> NullDate, exc |-> NONE]


DateInit ==
    /\ shortYear \in BOOLEAN
    /\ dateIn \in DateInputs
    /\ dateOut = NoDateOut
    /\ dateAgain = NoDateOut
    /\ datePc = "ready"

DateIdle ==
    /\ shortYear = FALSE
    /\ dateIn = NullDate
    /\ dateOut = NoDateOut
    /\ dateAgain = NoDateOut
    /\ datePc = "idle"

ValidateDate ==
    /\ datePc = "ready"
    /\ dateOut' = validate_date(dateIn, shortYear)
    /\ datePc' = "done"
    /\ UNCHANGED <<shortYear, dateIn, dateAgain, chatVars, engVars, catVars, concVars>>

\* the caller hands the returned value to validate_date once more
ValidateAgain ==
    /\ datePc = "done"
    /\ dateOut.out = "return"
    /\ dateAgain' = validate_date(dateOut.val, shortYear)
    /\ datePc' = "again"
    /\ UNCHANGED <<shortYear, dateIn, dateOut, chatVars, engVars, catVars, concVars>>

(***************************************************************************)
(* agent_api: the entity catalog                                           *)
(***************************************************************************)
\* outcome of a call: a returned list of names or an escaping exception
Names(l)       == [out |-> "return", val |-> l,    exc |-> NONE]
Escapes(e)     == [out |-> "raise",  val |-> <<>>, exc |-> e]
NoCatalog      == [out |-> "none",   val |-> <<>>, exc |-> NONE]

\* the body of the try block: execute() on the table and the list
\* comprehension row["..._name"] over data.data.  "raises": the client
\* raises; "malformed": the reply has no rows or a row lacks the column.
FetchNames(table) ==
    IF table.kind = "raises" THEN Escapes("APIError")
    ELSE IF table.kind = "malformed" THEN Escapes("KeyError")
    ELSE Names(table.names)

\* get_portfolios() as the caller sees it: the fallback list when the
\* client is not configured, when the fetch or the row access raises
\* (except Exception), and when no row comes back (names or FALLBACK).
get_portfolios_call_NoEmptyCheck(st) ==
    IF ~st.configured THEN Names(FALLBACK_PORTFOLIOS)
    ELSE LET fetched == FetchNames(st.portfolios) IN
         IF fetched.out = "raise" THEN Names(FALLBACK_PORTFOLIOS)
         ELSE Names(fetched.val)

get_portfolios_call(st) ==
    IF ~st.configured THEN Names(FALLBACK_PORTFOLIOS)
    ELSE LET fetched == FetchNames(st.portfolios) IN
         IF fetched.out = "raise" THEN Names(FALLBACK_PORTFOLIOS)
         ELSE IF fetched.val # <<>> THEN Names(fetched.val)
         ELSE Names(FALLBACK_PORTFOLIOS)

get_benchmarks_call(st) ==
    IF ~st.configured THEN Names(FALLBACK_BENCHMARKS)
    ELSE LET fetched == FetchNames(st.benchmarks) IN
         IF fetched.out = "raise" THEN Names(FALLBACK_BENCHMARKS)
         ELSE IF fetched.val # <<>> THEN Names(fetched.val)
         ELSE Names(FALLBACK_BENCHMARKS)

\* the list chat() binds to portfolios / benchmarks
get_portfolios(st) == get_portfolios_call(st).val

get_benchmarks(st) == get_benchmarks_call(st).val

CatIdle == catPortfolios = NoCatalog /\ catBenchmarks = NoCatalog

(***************************************************************************)
(* agent_api: extracted parameters                                         *)
(*   params = [kind, obj]: kind "dict" with the record obj, or "non_dict"  *)
(*   for a JSON value that is not an object (a list, a string, a number).  *)
(*   ABSENT is kept apart from NULL for portfolio_name only, the one key   *)
(*   the code subscripts (params['portfolio_name']) instead of .get().     *)
(***************************************************************************)
ABSENT == "<absent>"

NameFields == {"portfolio_name", "benchmark_name", "risk_free_portfolio_name"}
DateFields == {"start_date", "end_date"}

MetricsAbsent  == [kind |-> "absent", items |-> <<>>]
MetricsNull    == [kind |-> "null",   items |-> <<>>]
MetricsList(l) == [kind |-> "list",   items |-> l]

\* the {} that parse_with_llm returns on failure
EmptyParams ==
    [ portfolio_name |-> ABSENT, benchmark_name |-> NULL, risk_free_portfolio_name |-> NULL,
      start_date |-> NullDate, end_date |-> NullDate, metrics |-> MetricsAbsent ]

Dict(obj)  == [kind |-> "dict", obj |-> obj]
NonDict    == [kind |-> "non_dict", obj |-> EmptyParams]
NoParams   == [kind |-> "none", obj |-> EmptyParams]

\* bool(params.get(field))
Truthy(obj, field) ==
    IF field \in NameFields THEN obj[field] \notin {NULL, ABSENT, ""}
    ELSE IF field \in DateFields THEN obj[field].kind # "null"
    ELSE obj.metrics.kind = "list" /\ obj.metrics.items # <<>>

Ok(v)    == [out |-> "return", val |-> v, exc |-> NONE]
Raise(e) == [out |-> "raise", val |-> NONE, exc |-> e]

\* parse_with_llm(message, history).  The prompt is formatted from
\* msg['role'] and msg['content'] before the try block; everything after it
\* is inside `try: ... except Exception: return {}`.
parse_with_llm(req, orc) ==
    IF ~req.history_ok THEN [out |-> "raise", val |-> NoParams, exc |-> "KeyError"]
    ELSE IF orc.kind \in {"network_error", "non_json"}
         THEN [out |-> "return", val |-> Dict(EmptyParams), exc |-> NONE]
    ELSE IF orc.kind = "non_object"
         THEN [out |-> "return", val |-> NonDict, exc |-> NONE]
    ELSE [out |-> "return", val |-> Dict(orc.obj), exc |-> NONE]

\* the fields appended by the loop of check_completeness for one metric
MissingFor(obj, metric) == { r \in Requirements(metric) : ~Truthy(obj, r) }

\* check_completeness with the test `if not metrics` dropped: "metrics" is
\* appended for every record
check_completeness_AlwaysMetrics(p) ==
    IF p.kind # "dict" THEN Raise("AttributeError")
    ELSE LET metrics == IF p.obj.metrics.kind = "absent" THEN MetricsList(<<>>)
                        ELSE p.obj.metrics
         IN  IF metrics.kind = "null" THEN Raise("TypeError")
             ELSE Ok( UNION { MissingFor(p.obj, metrics.items[i]) : i \in DOMAIN metrics.items }
                      \cup {"metrics"} )

\* check_completeness(params): params.get on a non-dict raises
\* AttributeError, iterating None raises TypeError.
check_completeness(p) ==
    IF p.kind # "dict" THEN Raise("AttributeError")
    ELSE LET metrics == IF p.obj.metrics.kind = "absent" THEN MetricsList(<<>>)
                        ELSE p.obj.metrics
         IN  IF metrics.kind = "null" THEN Raise("TypeError")
             ELSE Ok( UNION { MissingFor(p.obj, metrics.items[i]) : i \in DOMAIN metrics.items }
                      \cup (IF metrics.items = <<>> THEN {"metrics"} ELSE {}) )

\* the catalog checks without the one for risk_free_portfolio_name
CatalogMissing_NoRiskFree(obj, portfolios, benchmarks) ==
    (IF Truthy(obj, "portfolio_name") /\ obj.portfolio_name \notin Range(portfolios)
        THEN {"portfolio_name"} ELSE {})
    \cup
    (IF Truthy(obj, "benchmark_name") /\ obj.benchmark_name \notin Range(benchmarks)
        THEN {"benchmark_name"} ELSE {})

\* chat(), lines 234-246: a supplied name that is not in its catalog
CatalogMissing(obj, portfolios, benchmarks) ==
    (IF Truthy(obj, "portfolio_name") /\ obj.portfolio_name \notin Range(portfolios)
        THEN {"portfolio_name"} ELSE {})
    \cup
    (IF Truthy(obj, "benchmark_name") /\ obj.benchmark_name \notin Range(benchmarks)
        THEN {"benchmark_name"} ELSE {})
    \cup
    (IF Truthy(obj, "risk_free_portfolio_name")
           /\ obj.risk_free_portfolio_name \notin Range(portfolios)
        THEN {"risk_free_portfolio_name"} ELSE {})

(***************************************************************************)
(* agent_api: the response composer                                        *)
(*   The text of a reply is kept by its kind:                              *)
(*     "clarification"  "I need the following information to compute: ..." *)
(*     "computed"       "Computed analytics for <portfolio>: <results>"    *)
(*     "backend_error"  "Error computing analytics: <resp.text>"           *)
(*     "exception"      "Error: <str(e)>"                                  *)
(*     "metrics"        "<Metric> is <value>; ..." (built in chat)         *)
(*   The reply of the analytics backend is one of                          *)
(*     "network_error"  requests.get raises                                *)
(*     "http_error"     status code other than 200                         *)
(*     "ok"             200, body {portfolio, benchmark, results: {...}}   *)
(*     "ok_non_json"    200, resp.json() raises                            *)
(*     "ok_no_results"  200, a JSON object without the key "results"       *)
(*     "ok_empty"       200, the JSON object {}                            *)
(***************************************************************************)
BackendReplies == {"network_error", "http_error", "ok", "ok_non_json", "ok_no_results", "ok_empty"}

Composed(text, results, reset, calls) ==
    [text |-> text, results |-> results, reset |-> reset, calls |-> calls, suggest |-> {}]

\* query_params, lines 202-209: every value is `v if params.get(k) else None`
QueryParams(obj, start, end) ==
    [ portfolio_name |-> IF Truthy(obj, "portfolio_name") THEN obj.portfolio_name ELSE NULL,
      benchmark_name |-> IF Truthy(obj, "benchmark_name") THEN obj.benchmark_name ELSE NULL,
      risk_free_portfolio_name |->
          IF Truthy(obj, "risk_free_portfolio_name") THEN obj.risk_free_portfolio_name ELSE NULL,
      start_date |-> start,
      end_date   |-> end,
      metrics    |-> IF Truthy(obj, "metrics") THEN obj.metrics ELSE MetricsNull ]

\* lines 210-216, once query_params is built
CallBackend(obj, query, reply) ==
    IF reply \in {"network_error", "ok_non_json"}
        THEN Composed("exception", NONE, FALSE, <<query>>)
    ELSE IF reply = "http_error"
        THEN Composed("backend_error", NONE, FALSE, <<query>>)
    ELSE IF obj.portfolio_name = ABSENT      \* params['portfolio_name']: KeyError
        THEN Composed("exception", NONE, FALSE, <<query>>)
    ELSE Composed("computed", reply, TRUE, <<query>>)

\* the date handed on after `params[k] = validate_date(params[k])`
Normalized(obj, field, platformShort) ==
    IF Truthy(obj, field) THEN validate_date(obj[field], platformShort)
    ELSE Returned(obj[field])

\* the clauses added to a clarification, lines 172-189: one per name field
\* that is missing and supplied (fuzzy matches, or else the whole catalog)
Suggestions(obj, miss) == { f \in NameFields : f \in miss /\ Truthy(obj, f) }

\* generate_response that asks for what is missing and calls the backend
\* all the same
generate_response_CallsAnyway(obj, miss, reply, platformShort) ==
    LET start == Normalized(obj, "start_date", platformShort)
        end   == Normalized(obj, "end_date", platformShort)
    IN  IF start.out = "raise" \/ end.out = "raise"
        THEN Composed("exception", NONE, FALSE, <<>>)
        ELSE CallBackend(obj, QueryParams(obj, start.val, end.val), reply)

\* generate_response(params, missing, portfolios, benchmarks)
generate_response(obj, miss, reply, platformShort) ==
    IF miss # {}
    THEN [Composed("clarification", NONE, FALSE, <<>>) EXCEPT !.suggest = Suggestions(obj, miss)]
    ELSE LET start == Normalized(obj, "start_date", platformShort)
             end   == Normalized(obj, "end_date", platformShort)
         IN  IF start.out = "raise" \/ end.out = "raise"
             THEN Composed("exception", NONE, FALSE, <<>>)
             ELSE CallBackend(obj, QueryParams(obj, start.val, end.val), reply)

(***************************************************************************)
(* agent_api: POST /chat                                                   *)
(***************************************************************************)
ChatResponse(text, parameters, results, reset) ==
    [kind |-> "response", text |-> text, parameters |-> parameters, results |-> results,
     reset_history |-> reset, exc |-> NONE]

Unhandled(e) ==
    [kind |-> "exception", text |-> NONE, parameters |-> NoParams, results |-> NONE,
     reset_history |-> FALSE, exc |-> e]

NoResponse ==
    [kind |-> "none", text |-> NONE, parameters |-> NoParams, results |-> NONE,
     reset_history |-> FALSE, exc |-> NONE]

NoComposed == Composed(NONE, NONE, FALSE, <<>>)

\* lines 250-253: the flag returned by generate_response is cleared before
\* the response is built
ResetFlag(reset) == IF reset THEN FALSE ELSE reset

\* lines 255-275
BuildResponse(p, miss, g) ==
    IF g.results \in {NONE, "ok_empty"}            \* `if results:` is false
    THEN ChatResponse(g.text, IF miss # {} THEN p ELSE NoParams, g.results, ResetFlag(g.reset))
    ELSE IF g.results = "ok_no_results"            \* results["results"]: KeyError
    THEN Unhandled("KeyError")
    ELSE ChatResponse("metrics", IF miss # {} THEN p ELSE NoParams, g.results, ResetFlag(g.reset))

ChatStores ==
    { [configured |-> FALSE,
       portfolios |-> [kind |-> "raises", names |-> <<>>],
       benchmarks |-> [kind |-> "raises", names |-> <<>>]],
      [configured |-> TRUE,
       portfolios |-> [kind |-> "rows", names |-> <<"Alpha Fund", "Secure Income">>],
       benchmarks |-> [kind |-> "rows", names |-> <<>>]] }

\* the five identifiers of the prompt and one outside the vocabulary
OracleMetricIds == MetricNames \cup {"alpha"}

OracleObjects ==
    [ portfolio_name : {ABSENT, NULL, "", "Growth Plus", "Growth Plu"},
      benchmark_name : {NULL, "MSCI World", "MSCI Wrld"},
      risk_free_portfolio_name : {NULL, "Secure Income", "Treasury"},
      start_date : {NullDate, DateStr(2023, 1, 15, TRUE, TRUE), DateStr(2023, 13, 45, TRUE, TRUE)},
      end_date : {NullDate, DateStr(2023, 3, 31, TRUE, TRUE), GarbageDate,
                  DateStr(9999, 12, 31, TRUE, TRUE)},
      metrics : {MetricsAbsent, MetricsNull}
                \cup { MetricsList(l) : l \in SeqsUpTo(OracleMetricIds, MaxMetrics) } ]

OracleFailures ==
    { [kind |-> k, obj |-> EmptyParams] : k \in {"network_error", "non_json", "non_object"} }

OracleReplies == OracleFailures \cup { [kind |-> "object", obj |-> o] : o \in OracleObjects }

UnconfiguredStore ==
    [configured |-> FALSE,
     portfolios |-> [kind |-> "raises", names |-> <<>>],
     benchmarks |-> [kind |-> "raises", names |-> <<>>]]

\* no chat turn in progress, whatever the store holds
ChatQuiet ==
    /\ pc = "idle"
    /\ request = [history_ok |-> TRUE]
    /\ oracle = [kind |-> "network_error", obj |-> EmptyParams]
    /\ params = NoParams
    /\ missing = {}
    /\ backendCalls = <<>>
    /\ composed = NoComposed
    /\ response = NoResponse

ChatIdle == ChatQuiet /\ store = UnconfiguredStore

(***************************************************************************)
(* agent_api: get_portfolios / get_benchmarks called on their own          *)
(***************************************************************************)
\* names a row can carry; the column is nullable
RowNames == {"Alpha Fund", "Growth Plus", NULL}

TableReplies ==
    { [kind |-> k, names |-> <<>>] : k \in {"raises", "malformed"} }
    \cup { [kind |-> "rows", names |-> l] : l \in SeqsUpTo(RowNames, MaxRows) }

CatalogStores ==
    [configured : BOOLEAN, portfolios : TableReplies, benchmarks : TableReplies]

InitCatalogs ==
    /\ store \in CatalogStores
    /\ catPortfolios = NoCatalog
    /\ catBenchmarks = NoCatalog

GetPortfolios ==
    /\ catPortfolios = NoCatalog
    /\ pc = "idle"
    /\ catPortfolios' = get_portfolios_call(store)
    /\ UNCHANGED <<catBenchmarks, chatVars, dateVars, engVars, concVars>>

GetBenchmarks ==
    /\ catBenchmarks = NoCatalog
    /\ pc = "idle"
    /\ catBenchmarks' = get_benchmarks_call(store)
    /\ UNCHANGED <<catPortfolios, chatVars, dateVars, engVars, concVars>>

\* chat(request): the whole handler
Chat ==
    /\ pc = "ready"
    /\ pc' = "done"
    /\ LET portfolios == get_portfolios(store)
           benchmarks == get_benchmarks(store)
           parsed     == parse_with_llm(request, oracle)
       IN  IF parsed.out = "raise"
           THEN /\ response' = Unhandled(parsed.exc)
                /\ UNCHANGED <<params, missing, backendCalls, composed>>
           ELSE LET checked == check_completeness(parsed.val)
                IN  IF checked.out = "raise"
                    THEN /\ params' = parsed.val
                         /\ response' = Unhandled(checked.exc)
                         /\ UNCHANGED <<missing, backendCalls, composed>>
                    ELSE \E reply \in BackendReplies :
                         LET miss == checked.val
                                     \cup CatalogMissing(parsed.val.obj, portfolios, benchmarks)
                             g == generate_response(parsed.val.obj, miss, reply, shortYear)
                         IN  /\ params' = parsed.val
                             /\ missing' = miss
                             /\ composed' = g
                             /\ backendCalls' = g.calls
                             /\ response' = BuildResponse(parsed.val, miss, g)
    /\ UNCHANGED <<request, store, oracle, dateVars, engVars, catVars, concVars>>


(***************************************************************************)
(* Metric engine: the formulas (analytics_api/app/main.py, copied from     *)
(* formula_api/app/services/formulas.py)                                   *)
(*   A return series is a sequence of integers.  A float result is         *)
(*     [kind, mean, var, len]: kind "num", "nan" or "inf"; mean = <<a, b>> *)
(*     the quotient a/b in the result, var = <<c, d>> the quotient under   *)
(*     its square root, len the length of the array the statistic was      *)
(*     taken over.  numpy floats do not raise on division by zero: they    *)
(*     give nan or inf with a warning.                                     *)
(***************************************************************************)
SeriesValues == {0, 1}

Num(mean, var, len) == [kind |-> "num", mean |-> mean, var |-> var, len |-> len]
NaN(len)            == [kind |-> "nan", mean |-> <<0, 1>>, var |-> <<0, 1>>, len |-> len]
Inf(len)            == [kind |-> "inf", mean |-> <<0, 1>>, var |-> <<0, 1>>, len |-> len]

Value(v)      == [out |-> "return", val |-> v, exc |-> NONE]
Error(e)      == [out |-> "raise", val |-> NaN(0), exc |-> e]

SumSq(xs)     == SumSeq([i \in DOMAIN xs |-> xs[i] * xs[i]])
SumProd(xs, ys) == SumSeq([i \in DOMAIN xs |-> xs[i] * ys[i]])

\* Len(xs) * sum((xs - mean(xs)) ** 2)
SSD(xs) == Len(xs) * SumSq(xs) - SumSeq(xs) * SumSeq(xs)

\* np.sqrt(np.sum((a - np.mean(a)) ** 2) / (len(a) - 1)) for an array a:
\* the empty array gives sqrt(0.0 / -1), one element gives 0.0 / 0 = nan
SampleStd(a) ==
    IF Len(a) = 0 THEN Num(<<1, 1>>, <<0, -1>>, 0)
    ELSE IF Len(a) = 1 THEN NaN(1)
    ELSE Num(<<1, 1>>, <<SSD(a), Len(a) * (Len(a) - 1)>>, Len(a))

volatility(returns) == Value(SampleStd(returns))

\* np.cov stacks the two series as rows of one matrix: lengths must agree
beta(portfolio_returns, benchmark_returns) ==
    LET n == Len(portfolio_returns) IN
    IF n # Len(benchmark_returns) THEN Error("ValueError")
    ELSE IF n < 2 \/ SSD(benchmark_returns) = 0 THEN Value(NaN(n))
    ELSE Value(Num(<<n * SumProd(portfolio_returns, benchmark_returns)
                       - SumSeq(portfolio_returns) * SumSeq(benchmark_returns),
                     SSD(benchmark_returns)>>, <<1, 1>>, n))

\* a quotient mean / spread of two numpy floats
Quotient(meanNum, meanDen, spread, len) ==
    IF len = 0 \/ spread.kind = "nan" THEN NaN(len)
    ELSE IF spread.var[1] = 0 THEN (IF meanNum = 0 THEN NaN(len) ELSE Inf(len))
    ELSE Num(<<meanNum, meanDen>>, spread.var, len)

\* risk_free_return is the quotient rf[1] / rf[2]
sharpe_ratio(returns, rf) ==
    LET n == Len(returns) IN
    Value(Quotient(rf[2] * SumSeq(returns) - rf[1] * n, n * rf[2], SampleStd(returns), n))

\* np.array(p) - np.array(b): shapes (m,) and (n,) broadcast when m = n or
\* one of them is 1; the one-element array is stretched to the other length
CanBroadcast(p, b) == Len(p) = Len(b) \/ Len(p) = 1 \/ Len(b) = 1

BroadcastDiff(p, b) ==
    LET len == IF Len(p) = 1 THEN Len(b) ELSE Len(p)
        at(xs, i) == IF Len(xs) = 1 THEN xs[1] ELSE xs[i]
    IN  [i \in 1..len |-> at(p, i) - at(b, i)]

tracking_error(portfolio_returns, benchmark_returns) ==
    IF ~CanBroadcast(portfolio_returns, benchmark_returns) THEN Error("ValueError")
    ELSE Value(SampleStd(BroadcastDiff(portfolio_returns, benchmark_returns)))

information_ratio(portfolio_returns, benchmark_returns) ==
    IF ~CanBroadcast(portfolio_returns, benchmark_returns) THEN Error("ValueError")
    ELSE LET active == BroadcastDiff(portfolio_returns, benchmark_returns)
         IN  Value(Quotient(SumSeq(active), Len(active), SampleStd(active), Len(active)))

(***************************************************************************)
(* analytics_api: GET /analytics                                           *)
(*   engReq = [portfolio_found, benchmark, risk_free, p, b, r, metrics]:   *)
(*   whether the named portfolio exists, whether a benchmark / risk-free   *)
(*   portfolio is named ("none") and exists ("found" / "not_found"), and   *)
(*   the return series the store holds for them.                           *)
(***************************************************************************)
DefaultMetrics == <<"volatility", "beta", "sharpe_ratio", "tracking_error", "information_ratio">>

HttpResponse(status, raised, results) == [status |-> status, raised |-> raised, results |-> results]

\* risk_free_rate: np.mean(returns) if returns else 0.0
RiskFreeRate(req) ==
    IF req.risk_free = "none" \/ req.r = <<>> THEN <<0, 1>> ELSE <<SumSeq(req.r), Len(req.r)>>

\* one branch of the if/elif chain of lines 130-142
ComputeOne(metric, p, b, rf) ==
    CASE metric = "volatility"        -> volatility(p)
      [] metric = "beta"              -> beta(p, b)
      [] metric = "sharpe_ratio"      -> sharpe_ratio(p, rf)
      [] metric = "tracking_error"    -> tracking_error(p, b)
      [] metric = "information_ratio" -> information_ratio(p, b)
      [] OTHER                        -> Error("HTTPException(400)")

\* the exception that leaves the try block of compute_analytics, or NONE
FirstRaised(req, metrics) ==
    IF ~req.portfolio_found THEN "HTTPException(404)"
    ELSE IF req.benchmark = "not_found" THEN "HTTPException(404)"
    ELSE IF req.risk_free = "not_found" THEN "HTTPException(404)"
    ELSE LET b    == IF req.benchmark = "none" THEN <<>> ELSE req.b
             bad  == { i \in DOMAIN metrics :
                         ComputeOne(metrics[i], req.p, b, RiskFreeRate(req)).out = "raise" }
         IN  IF bad = {} THEN NONE
             ELSE LET first == CHOOSE i \in bad : \A j \in bad : i <= j
                  IN  ComputeOne(metrics[first], req.p, b, RiskFreeRate(req)).exc

\* `except Exception as e: raise HTTPException(status_code=500, ...)`: the
\* handler catches every exception of the try block, its own HTTPExceptions
\* included
CaughtStatus(raised) == 500

\* compute_analytics(...).  A nan or inf among the results cannot be
\* rendered as JSON and the response is a 500.
compute_analytics(req) ==
    LET metrics == IF req.metrics = <<>> THEN DefaultMetrics ELSE req.metrics
        raised  == FirstRaised(req, metrics)
        b       == IF req.benchmark = "none" THEN <<>> ELSE req.b
        results == [m \in Range(metrics) |-> ComputeOne(m, req.p, b, RiskFreeRate(req)).val]
    IN  IF raised # NONE THEN HttpResponse(CaughtStatus(raised), raised, <<>>)
        ELSE IF \E m \in DOMAIN results : results[m].kind # "num"
             THEN HttpResponse(500, "ValueError(render)", results)
        ELSE HttpResponse(200, NONE, results)

(***************************************************************************)
(* formula_api: POST /compute                                              *)
(*   fReq = [metric, kwargs, p, b, rf]: kwargs names the keys of `inputs`: *)
(*   "r" {returns}, "r_rf" {returns, risk_free_return},                    *)
(*   "pb" {portfolio_returns, benchmark_returns}                           *)
(***************************************************************************)
\* module attributes of app.services.formulas that are not formulas
FormulaModuleAttrs == {"np", "pd"}

Signature(metric) ==
    CASE metric = "volatility"   -> "r"
      [] metric = "sharpe_ratio" -> "r_rf"
      [] OTHER                   -> "pb"

\* compute_metric(request)
compute_metric(req) ==
    IF req.metric \notin MetricNames \cup FormulaModuleAttrs
        THEN HttpResponse(404, "AttributeError", <<>>)       \* getattr fails
    ELSE IF req.metric \in FormulaModuleAttrs \/ req.kwargs # Signature(req.metric)
        THEN HttpResponse(400, "TypeError", <<>>)            \* fn(**inputs) fails
    ELSE LET r == ComputeOne(req.metric, req.p, req.b, req.rf)
         IN  IF r.out = "raise" THEN HttpResponse(400, r.exc, <<>>)
             ELSE IF r.val.kind # "num"
                  THEN HttpResponse(500, "ValueError(render)", [m \in {req.metric} |-> r.val])
             ELSE HttpResponse(200, NONE, [m \in {req.metric} |-> r.val])

Series == SeqsUpTo(SeriesValues, MaxLen)

EngineMetricIds == MetricNames \cup {"alpha"}

AnalyticsRequests ==
    [ portfolio_found : BOOLEAN,
      benchmark : {"none", "found", "not_found"},
      risk_free : {"none", "found", "not_found"},
      p : Series, b : Series, r : {<<>>, <<1>>},
      metrics : SeqsUpTo(EngineMetricIds, MaxEngineMetrics) ]

FormulaRequests ==
    [ metric : EngineMetricIds \cup FormulaModuleAttrs,
      kwargs : {"r", "r_rf", "pb"},
      p : Series, b : Series, rf : {<<0, 1>>, <<1, 2>>} ]

NoAnalyticsRequest ==
    [portfolio_found |-> FALSE, benchmark |-> "none", risk_free |-> "none",
     p |-> <<>>, b |-> <<>>, r |-> <<>>, metrics |-> <<>>]

NoFormulaRequest == [metric |-> NONE, kwargs |-> NONE, p |-> <<>>, b |-> <<>>, rf |-> <<0, 1>>]

NoHttpResponse == HttpResponse(0, NONE, <<>>)

EngIdle ==
    /\ engReq = [pending |-> FALSE, req |-> NoAnalyticsRequest]
    /\ fReq = [pending |-> FALSE, req |-> NoFormulaRequest]
    /\ engResp = NoHttpResponse
    /\ fResp = NoHttpResponse

\* one request, addressed to one of the two services
InitEngine ==
    /\ \/ /\ engReq \in [pending : {TRUE}, req : AnalyticsRequests]
          /\ fReq = [pending |-> FALSE, req |-> NoFormulaRequest]
       \/ /\ engReq = [pending |-> FALSE, req |-> NoAnalyticsRequest]
          /\ fReq \in [pending : {TRUE}, req : FormulaRequests]
    /\ engResp = NoHttpResponse
    /\ fResp = NoHttpResponse

ComputeAnalytics ==
    /\ engReq.pending
    /\ engResp' = compute_analytics(engReq.req)
    /\ engReq' = [engReq EXCEPT !.pending = FALSE]
    /\ UNCHANGED <<fReq, fResp, chatVars, dateVars, catVars, concVars>>

ComputeMetric ==
    /\ fReq.pending
    /\ fResp' = compute_metric(fReq.req)
    /\ fReq' = [fReq EXCEPT !.pending = FALSE]
    /\ UNCHANGED <<engReq, engResp, chatVars, dateVars, catVars, concVars>>

(***************************************************************************)
(* agent_api: chat turns served concurrently                               *)
(*   chat is a plain `def`, so each request runs on a worker thread of     *)
(*   the one process and the threads share the module-level objects.  A    *)
(*   turn is cut at its calls: get_portfolios/get_benchmarks,              *)
(*   parse_with_llm, check_completeness, the catalog checks, and           *)
(*   generate_response with the construction of the response.              *)
(*   An object is named <<owner, name>>: owner 0 is the module, owner t    *)
(*   the t-th turn.                                                        *)
(***************************************************************************)
Turns == 1..NumTurns

\* METRICS_REQUIREMENTS, FALLBACK_PORTFOLIOS, FALLBACK_BENCHMARKS as loaded
ModuleLoaded ==
    [ METRICS_REQUIREMENTS |-> METRICS_REQUIREMENTS,
      FALLBACK_PORTFOLIOS  |-> FALLBACK_PORTFOLIOS,
      FALLBACK_BENCHMARKS  |-> FALLBACK_BENCHMARKS ]

\* `return FALLBACK_...` hands out the module's list itself, `return names`
\* the list built by this call
ReturnsFallback(configured, table) ==
    \/ ~configured
    \/ FetchNames(table).out = "raise"
    \/ FetchNames(table).val = <<>>

CatalogObject(t, configured, table) ==
    IF ReturnsFallback(configured, table) THEN [owner |-> 0, val |-> <<>>]
    ELSE [owner |-> t, val |-> FetchNames(table).val]

\* the list a local name of chat() is bound to
Deref(g, ref, name) == IF ref.owner = 0 THEN g[name] ELSE ref.val

ObjectOf(t, ref, global, local) ==
    IF ref.owner = 0 THEN <<0, global>> ELSE <<t, local>>

\* what the clarification text shows of the catalogs, lines 172-189: for
\* each suggested field the fuzzy matches in, or else the whole of, its list
Shown(obj, miss, portfolios, benchmarks) ==
    { <<f, IF f = "benchmark_name" THEN benchmarks ELSE portfolios>> :
          f \in Suggestions(obj, miss) }

TurnStart ==
    [ pc |-> "start",
      portfolios |-> [owner |-> 0, val |-> <<>>],
      benchmarks |-> [owner |-> 0, val |-> <<>>],
      params |-> NoParams, missing |-> {}, shown |-> {}, response |-> NoResponse ]

FetchedStore ==
    [configured |-> TRUE,
     portfolios |-> [kind |-> "rows", names |-> <<"Alpha Fund", "Secure Income">>],
     benchmarks |-> [kind |-> "rows", names |-> <<>>]]

Ask(portfolio, benchmark, end, metrics) ==
    [ kind |-> "object",
      obj |-> [ portfolio_name |-> portfolio, benchmark_name |-> benchmark,
                risk_free_portfolio_name |-> NULL,
                start_date |-> DateStr(2023, 1, 15, TRUE, TRUE), end_date |-> end,
                metrics |-> metrics ] ]

TurnInput(history_ok, st, orc, reply) ==
    [request |-> [history_ok |-> history_ok], store |-> st, oracle |-> orc, reply |-> reply]

\* one turn of each course chat() can take, over both kinds of store
TurnInputs ==
    LET marchEnd == DateStr(2023, 3, 31, TRUE, TRUE)
        lastDay  == DateStr(9999, 12, 31, TRUE, TRUE)
        noReply  == [kind |-> "network_error", obj |-> EmptyParams]
    IN  { TurnInput(TRUE, UnconfiguredStore,
                    Ask("Growth Plus", NULL, marchEnd, MetricsList(<<"volatility">>)), "ok"),
          TurnInput(TRUE, UnconfiguredStore,
                    Ask("Growth Plus", NULL, marchEnd, MetricsList(<<"volatility">>)), "http_error"),
          TurnInput(TRUE, UnconfiguredStore,
                    Ask("Growth Plu", "MSCI Wrld", marchEnd, MetricsList(<<"beta">>)), "ok"),
          TurnInput(TRUE, FetchedStore,
                    Ask("Growth Plus", "MSCI World", marchEnd, MetricsList(<<"beta">>)), "ok"),
          TurnInput(TRUE, FetchedStore,
                    Ask("Alpha Fund", "MSCI World", lastDay, MetricsList(<<"beta">>)), "ok"),
          TurnInput(TRUE, UnconfiguredStore, noReply, "ok"),
          TurnInput(TRUE, UnconfiguredStore,
                    Ask("Growth Plus", NULL, marchEnd, MetricsNull), "ok"),
          TurnInput(FALSE, UnconfiguredStore, noReply, "ok") }

ConcIdle ==
    /\ turnIn = [t \in Turns |-> TurnInput(TRUE, UnconfiguredStore,
                                           [kind |-> "network_error", obj |-> EmptyParams], "ok")]
    /\ turn = [t \in Turns |-> [TurnStart EXCEPT !.pc = "idle"]]
    /\ moduleState = ModuleLoaded
    /\ reads = [t \in Turns |-> {}]
    /\ writes = [t \in Turns |-> {}]

InitTurns ==
    /\ turnIn \in [Turns -> TurnInputs]
    /\ turn = [t \in Turns |-> TurnStart]
    /\ moduleState = ModuleLoaded
    /\ reads = [t \in Turns |-> {}]
    /\ writes = [t \in Turns |-> {}]

\* lines 222-223
FetchCatalogs(t) ==
    /\ turn[t].pc = "start"
    /\ LET st == turnIn[t].store
       IN  turn' = [turn EXCEPT
                ![t].pc = "fetched",
                ![t].portfolios = CatalogObject(t, st.configured, st.portfolios),
                ![t].benchmarks = CatalogObject(t, st.configured, st.benchmarks)]
    /\ reads' = [reads EXCEPT ![t] = @ \cup {<<0, "supabase">>}]
    /\ UNCHANGED <<turnIn, moduleState, writes, chatVars, dateVars, engVars, catVars>>

\* lines 226-227
ParseTurn(t) ==
    /\ turn[t].pc = "fetched"
    /\ LET parsed == parse_with_llm(turnIn[t].request, turnIn[t].oracle)
       IN  turn' = IF parsed.out = "raise"
                   THEN [turn EXCEPT ![t].pc = "done",
                                     ![t].response = Unhandled(parsed.exc)]
                   ELSE [turn EXCEPT ![t].pc = "parsed", ![t].params = parsed.val]
    /\ reads' = [reads EXCEPT ![t] = @ \cup {<<t, "request">>}]
    /\ writes' = [writes EXCEPT ![t] = @ \cup {<<t, "params">>}]
    /\ UNCHANGED <<turnIn, moduleState, chatVars, dateVars, engVars, catVars>>

\* lines 230-231
CheckTurn(t) ==
    /\ turn[t].pc = "parsed"
    /\ LET checked == check_completeness(turn[t].params)
       IN  turn' = IF checked.out = "raise"
                   THEN [turn EXCEPT ![t].pc = "done",
                                     ![t].response = Unhandled(checked.exc)]
                   ELSE [turn EXCEPT ![t].pc = "checked", ![t].missing = checked.val]
    /\ reads' = [reads EXCEPT ![t] = @ \cup {<<0, "METRICS_REQUIREMENTS">>, <<t, "params">>}]
    /\ writes' = [writes EXCEPT ![t] = @ \cup {<<t, "missing">>}]
    /\ UNCHANGED <<turnIn, moduleState, chatVars, dateVars, engVars, catVars>>

\* the catalog checks with `portfolios.append(params["portfolio_name"])`
\* after an unresolved portfolio name
catalog_checks_Remember(t, g, l) ==
    LET portfolios == Deref(g, l.portfolios, "FALLBACK_PORTFOLIOS")
        benchmarks == Deref(g, l.benchmarks, "FALLBACK_BENCHMARKS")
        unresolved == CatalogMissing(l.params.obj, portfolios, benchmarks)
        remembers  == "portfolio_name" \in unresolved /\ l.portfolios.owner = 0
    IN  [ module |-> IF remembers
                     THEN [g EXCEPT !.FALLBACK_PORTFOLIOS =
                                        Append(@, l.params.obj.portfolio_name)]
                     ELSE g,
          turn   |-> [l EXCEPT !.pc = "matched", !.missing = @ \cup unresolved],
          writes |-> {<<t, "missing">>}
                     \cup (IF remembers THEN {<<0, "FALLBACK_PORTFOLIOS">>} ELSE {}) ]

\* lines 234-246: the effect of the catalog checks on the module's objects
\* and on the turn's own; `missing` is the only object written
catalog_checks(t, g, l) ==
    LET portfolios == Deref(g, l.portfolios, "FALLBACK_PORTFOLIOS")
        benchmarks == Deref(g, l.benchmarks, "FALLBACK_BENCHMARKS")
        unresolved == CatalogMissing(l.params.obj, portfolios, benchmarks)
    IN  [ module |-> g,
          turn   |-> [l EXCEPT !.pc = "matched", !.missing = @ \cup unresolved],
          writes |-> {<<t, "missing">>} ]

CatalogChecksTurn(t) ==
    /\ turn[t].pc = "checked"
    /\ LET after == catalog_checks(t, moduleState, turn[t])
       IN  /\ turn' = [turn EXCEPT ![t] = after.turn]
           /\ moduleState' = after.module
           /\ writes' = [writes EXCEPT ![t] = @ \cup after.writes]
    /\ reads' = [reads EXCEPT ![t] = @ \cup
                    { <<t, "params">>, <<t, "missing">>,
                      ObjectOf(t, turn[t].portfolios, "FALLBACK_PORTFOLIOS", "portfolios"),
                      ObjectOf(t, turn[t].benchmarks, "FALLBACK_BENCHMARKS", "benchmarks") }]
    /\ UNCHANGED <<turnIn, chatVars, dateVars, engVars, catVars>>

\* lines 249-275: generate_response and the construction of the response
RespondTurn(t) ==
    /\ turn[t].pc = "matched"
    /\ LET l == turn[t]
           portfolios == Deref(moduleState, l.portfolios, "FALLBACK_PORTFOLIOS")
           benchmarks == Deref(moduleState, l.benchmarks, "FALLBACK_BENCHMARKS")
           g == generate_response(l.params.obj, l.missing, turnIn[t].reply, shortYear)
       IN  turn' = [turn EXCEPT
                ![t].pc = "done",
                ![t].shown = Shown(l.params.obj, l.missing, portfolios, benchmarks),
                ![t].response = BuildResponse(l.params, l.missing, g)]
    /\ reads' = [reads EXCEPT ![t] = @ \cup
                    { <<t, "params">>, <<t, "missing">>, <<t, "request">>,
                      ObjectOf(t, turn[t].portfolios, "FALLBACK_PORTFOLIOS", "portfolios"),
                      ObjectOf(t, turn[t].benchmarks, "FALLBACK_BENCHMARKS", "benchmarks") }]
    /\ writes' = [writes EXCEPT ![t] = @ \cup {<<t, "params">>, <<t, "request">>}]
    /\ UNCHANGED <<turnIn, moduleState, chatVars, dateVars, engVars, catVars>>

\* chat(request) run from its first line to its last with nothing in between
chat_alone(in, platformShort) ==
    LET portfolios == get_portfolios(in.store)
        benchmarks == get_benchmarks(in.store)
        parsed     == parse_with_llm(in.request, in.oracle)
    IN  IF parsed.out = "raise"
        THEN [response |-> Unhandled(parsed.exc), shown |-> {}]
        ELSE LET checked == check_completeness(parsed.val)
             IN  IF checked.out = "raise"
                 THEN [response |-> Unhandled(checked.exc), shown |-> {}]
                 ELSE LET miss == checked.val
                                  \cup CatalogMissing(parsed.val.obj, portfolios, benchmarks)
                          g == generate_response(parsed.val.obj, miss, in.reply, platformShort)
                      IN  [ response |-> BuildResponse(parsed.val, miss, g),
                            shown |-> Shown(parsed.val.obj, miss, portfolios, benchmarks) ]

(***************************************************************************)
(* Specifications                                                          *)
(***************************************************************************)
Init ==
    /\ pc = "ready"
    /\ request \in [history_ok : BOOLEAN]
    /\ store \in ChatStores
    /\ oracle \in (IF request.history_ok THEN OracleReplies ELSE OracleFailures)
    /\ params = NoParams
    /\ missing = {}
    /\ backendCalls = <<>>
    /\ composed = NoComposed
    /\ response = NoResponse
    /\ DateIdle
    /\ EngIdle
    /\ CatIdle
    /\ ConcIdle

Next == Chat

Spec == Init /\ [][Next]_vars

InitDate == DateInit /\ ChatIdle /\ EngIdle /\ CatIdle /\ ConcIdle

NextDate == ValidateDate \/ ValidateAgain

SpecDate == InitDate /\ [][NextDate]_vars

InitEngineSpec == InitEngine /\ ChatIdle /\ DateIdle /\ CatIdle /\ ConcIdle

NextEngine == ComputeAnalytics \/ ComputeMetric

SpecEngine == InitEngineSpec /\ [][NextEngine]_vars

\* the two catalog functions over every store reply
InitCatalog == InitCatalogs /\ ChatQuiet /\ DateIdle /\ EngIdle /\ ConcIdle

NextCatalog == GetPortfolios \/ GetBenchmarks

SpecCatalog == InitCatalog /\ [][NextCatalog]_vars

\* chat turns on worker threads, in every interleaving of their steps
InitConc == InitTurns /\ ChatIdle /\ DateIdle /\ EngIdle /\ CatIdle

NextConc ==
    \E t \in Turns :
        \/ FetchCatalogs(t)
        \/ ParseTurn(t)
        \/ CheckTurn(t)
        \/ CatalogChecksTurn(t)
        \/ RespondTurn(t)

SpecConc == InitConc /\ [][NextConc]_vars

(***************************************************************************)
(* Properties of a chat turn (Spec)                                        *)
(***************************************************************************)
\* a field counts as present when it holds a value: not null, not absent,
\* not the empty string
Present(obj, f) ==
    IF f \in NameFields THEN obj[f] # NULL /\ obj[f] # ABSENT /\ obj[f] # ""
    ELSE IF f \in DateFields THEN obj[f].kind # "null"
    ELSE obj.metrics.kind = "list" /\ Len(obj.metrics.items) > 0

CatalogOf(f) == IF f = "benchmark_name" THEN get_benchmarks(store) ELSE get_portfolios(store)

NamesResolved(obj) ==
    \A f \in NameFields : Present(obj, f) =>
        \E i \in DOMAIN CatalogOf(f) : CatalogOf(f)[i] = obj[f]

RequiredFieldsPresent(obj) ==
    \A i \in DOMAIN obj.metrics.items :
        obj.metrics.items[i] \in DOMAIN METRICS_REQUIREMENTS =>
            \A f \in METRICS_REQUIREMENTS[obj.metrics.items[i]] : Present(obj, f)

Complete(obj) == RequiredFieldsPresent(obj) /\ NamesResolved(obj)

ReachedComposer == pc = "done" /\ composed # NoComposed

\* C1: the backend is called only for a complete record; a turn with a
\* non-empty missing set makes no backend call and yields results = null
\* and reset flag = false.
C1_BackendOnlyWhenComplete ==
    pc = "done" =>
        /\ (backendCalls # <<>> => params.kind = "dict" /\ Complete(params.obj))
        /\ (missing # {} =>
                /\ backendCalls = <<>>
                /\ composed.results = NONE /\ composed.reset = FALSE
                /\ response.results = NONE /\ response.reset_history = FALSE)

C1_Witness ==
    /\ pc = "done"
    /\ backendCalls # <<>>
    /\ Len(params.obj.metrics.items) = 2
    /\ params.obj.metrics.items[1] # params.obj.metrics.items[2]
    /\ Present(params.obj, "benchmark_name")

\* C2: a supplied name that is not in its catalog is in the missing set
\* handed to the response composer, whatever the metric list requires.
C2_UnresolvedNameIsMissing ==
    ReachedComposer =>
        \A f \in NameFields :
            (Present(params.obj, f) /\ params.obj[f] \notin Range(CatalogOf(f)))
                => f \in missing

C2_Witness ==
    /\ ReachedComposer
    /\ params.obj.metrics = MetricsList(<<"volatility">>)
    /\ params.obj.benchmark_name = "MSCI Wrld"
    /\ params.obj.portfolio_name = "Growth Plus"
    /\ Present(params.obj, "start_date") /\ Present(params.obj, "end_date")
    /\ missing = {"benchmark_name"}

\* the turn computed: the backend answered 200 and its results were rendered
ComputationSucceeded ==
    pc = "done" /\ response.kind = "response" /\ response.text = "metrics"

\* C3: the response of a turn whose computation succeeded carries
\* reset_history = true, every other response carries false.
C3_ResetFlagOnSuccess ==
    (pc = "done" /\ response.kind = "response") =>
        (response.reset_history <=> ComputationSucceeded)

\* a date that validate_date does not turn into a date
FailsNormalization(s) ==
    LET r == validate_date(s, shortYear) IN r.out = "raise" \/ r.val.kind # "ymd"

\* C4: with nothing missing, a start_date or end_date that fails
\* normalization fails the turn (error text, no results, no reset) without a
\* backend call; every date the backend is called with was normalized.
C4_InvalidDateFailsTurn ==
    (ReachedComposer /\ missing = {}) =>
        /\ (\E f \in DateFields : Present(params.obj, f) /\ FailsNormalization(params.obj[f]))
            => /\ backendCalls = <<>>
               /\ response.kind = "response"
               /\ response.text \in {"exception", "backend_error"}
               /\ response.results = NONE /\ response.reset_history = FALSE
        /\ \A i \in DOMAIN backendCalls : \A f \in DateFields :
               Present(params.obj, f) => backendCalls[i][f].kind = "ymd"

\* C5: a chat turn never ends in an unhandled exception, and an oracle
\* failure (network error, non-JSON text, JSON that is no object) is
\* extracted as the empty record.
C5_NoUnhandledException ==
    pc = "done" =>
        /\ response.kind = "response"
        /\ (oracle.kind # "object" => params = Dict(EmptyParams))

\* C6: an empty, absent or null metrics field puts "metrics" in the missing
\* set, and with no name supplied the missing set is exactly {"metrics"}.
C6_EmptyMetricsIsMissing ==
    (pc = "done" /\ request.history_ok /\ oracle.kind = "object"
       /\ ~Present(oracle.obj, "metrics")) =>
        /\ ReachedComposer
        /\ "metrics" \in missing
        /\ ((\A f \in NameFields : ~Present(oracle.obj, f)) => missing = {"metrics"})

\* C7: a record with a non-empty metric list, every required field present
\* and every supplied name in its catalog has an empty missing set, and the
\* turn goes on to the computation branch.
C7_CompleteRecordHasNothingMissing ==
    (pc = "done" /\ params.kind = "dict" /\ Present(params.obj, "metrics")
       /\ Complete(params.obj)) =>
        /\ ReachedComposer
        /\ missing = {}
        /\ composed.text # "clarification"

C7_Witness ==
    /\ pc = "done" /\ params.kind = "dict"
    /\ params.obj.metrics = MetricsList(<<"beta", "sharpe_ratio">>)
    /\ Complete(params.obj)
    /\ missing = {}
    /\ backendCalls # <<>>

(***************************************************************************)
(* Properties of validate_date (SpecDate)                                  *)
(***************************************************************************)
\* the text is a strict YYYY-MM-DD rendering of a day of the calendar
StrictCalendarDate(s) ==
    /\ s.kind = "ymd" /\ s.y4 /\ s.pad
    /\ s.y \in MINYEAR..MAXYEAR /\ s.m \in 1..12
    /\ s.d >= 1
    /\ s.d <= (CASE s.m \in {1, 3, 5, 7, 8, 10, 12} -> 31
                 [] s.m \in {4, 6, 9, 11} -> 30
                 [] OTHER -> IF IsLeap(s.y) THEN 29 ELSE 28)

\* the text names no day of the calendar at all
NoCalendarDate(s) ==
    \/ s.kind = "garbage"
    \/ s.kind = "ymd" /\ (s.m \notin 1..12 \/ s.d < 1 \/ s.d > 31
                           \/ (s.m \in {4, 6, 9, 11} /\ s.d > 30)
                           \/ (s.m = 2 /\ s.d > (IF IsLeap(s.y) THEN 29 ELSE 28)))

LastDayText(s) ==
    DateStr(s.y, s.m,
            CASE s.m \in {1, 3, 5, 7, 8, 10, 12} -> 31
              [] s.m \in {4, 6, 9, 11} -> 30
              [] OTHER -> IF IsLeap(s.y) THEN 29 ELSE 28,
            TRUE, TRUE)

\* C10: validate_date maps every valid YYYY-MM-DD date to the last day of
\* its month (the input itself when it already is that day), and every text
\* that is no date to None.
C10_SnapsToMonthEnd ==
    datePc \in {"done", "again"} =>
        /\ (StrictCalendarDate(dateIn) => dateOut = Returned(LastDayText(dateIn)))
        /\ (NoCalendarDate(dateIn) => dateOut = Returned(NullDate))

\* C11: validate_date is idempotent: for every valid date d the call
\* returns a value, and validate_date of that value is that value again.
C11_Idempotent ==
    StrictCalendarDate(dateIn) =>
        /\ (datePc \in {"done", "again"} => dateOut.out = "return")
        /\ (datePc = "again" => dateAgain = dateOut)

(***************************************************************************)
(* Properties of the metric engine (SpecEngine)                            *)
(***************************************************************************)
AnalyticsDone == ~engReq.pending /\ engResp # NoHttpResponse
FormulaDone   == ~fReq.pending /\ fResp # NoHttpResponse

ClientError(resp) == resp.status \in 400..499

\* C8: a metric identifier outside the vocabulary is rejected with a client
\* error (4xx): the rejection raised for it reaches the caller as such.
C8_UnknownMetricIsClientError ==
    /\ (AnalyticsDone /\ engResp.raised = "HTTPException(400)") => ClientError(engResp)
    /\ (FormulaDone /\ fReq.req.metric \notin MetricNames) => ClientError(fResp)

\* a response that carries a value for the metric
HasValue(resp, metric) == metric \in DOMAIN resp.results

\* C9: tracking_error and information_ratio fail on series of different
\* lengths; no value is returned for them.
C9_MismatchedLengthsFail ==
    /\ FormulaDone /\ fReq.req.metric \in {"tracking_error", "information_ratio"}
         /\ fReq.req.kwargs = "pb" /\ Len(fReq.req.p) # Len(fReq.req.b)
       => fResp.raised = "ValueError" /\ ~HasValue(fResp, fReq.req.metric)
    /\ \A m \in {"tracking_error", "information_ratio"} :
         (AnalyticsDone /\ engReq.req.benchmark = "found"
            /\ Len(engReq.req.p) # Len(engReq.req.b)
            /\ m \in Range(engReq.req.metrics))
         => engResp.status # 200 /\ ~HasValue(engResp, m)

(***************************************************************************)
(* Properties of the catalog functions (SpecCatalog)                       *)
(***************************************************************************)
Fetched(configured, table) ==
    configured /\ table.kind = "rows" /\ table.names # <<>>

CatalogContract(result, configured, table, fallback) ==
    result # NoCatalog =>
        /\ result.out = "return"
        /\ result.val # <<>>
        /\ result.val = IF Fetched(configured, table) THEN table.names ELSE fallback

\* C12: get_portfolios and get_benchmarks never raise and never return an
\* empty list: the fetched names in source order when the configured store
\* answers with at least one well-formed row, the fixed fallback list when
\* the client is not configured, the fetch raises, the rows are malformed
\* or no row comes back.
C12_CatalogNeverFails ==
    /\ CatalogContract(catPortfolios, store.configured, store.portfolios,
                       FALLBACK_PORTFOLIOS)
    /\ CatalogContract(catBenchmarks, store.configured, store.benchmarks,
                       FALLBACK_BENCHMARKS)

\* fetched portfolios next to an empty benchmark table that fell back
C12_Witness ==
    /\ store.configured
    /\ store.portfolios.kind = "rows" /\ Len(store.portfolios.names) = 2
    /\ catPortfolios = Names(store.portfolios.names)
    /\ store.benchmarks.kind = "rows" /\ store.benchmarks.names = <<>>
    /\ catBenchmarks = Names(FALLBACK_BENCHMARKS)

(***************************************************************************)
(* Properties of concurrent chat turns (SpecConc)                          *)
(***************************************************************************)
SameAsAlone(t) ==
    LET alone == chat_alone(turnIn[t], shortYear)
    IN  turn[t].response = alone.response /\ turn[t].shown = alone.shown

NoSharedWrite(t, u) == writes[t] \cap (reads[u] \cup writes[u]) = {}

\* C13: in every interleaving of concurrent chat turns each finished turn
\* answers (text, parameters, results, reset flag) what it answers when run
\* alone on the same request, store, oracle and backend replies; no turn
\* writes an object another turn reads or writes; the requirement table
\* and the fallback catalogs keep the value they were loaded with.
C13_TurnsIndependent ==
    /\ \A t \in Turns : turn[t].pc = "done" => SameAsAlone(t)
    /\ \A t, u \in Turns : t # u => NoSharedWrite(t, u)
    /\ moduleState = ModuleLoaded

\* two different turns that both hold the module's fallback lists: the
\* first has answered with a clarification showing them while the second
\* is between its catalog checks and its answer
C13_Witness ==
    /\ turnIn[1] # turnIn[2]
    /\ turn[1].pc = "done" /\ turn[1].shown # {}
    /\ turn[2].pc = "matched" /\ turn[2].missing = {}
    /\ turn[1].portfolios.owner = 0 /\ turn[2].portfolios.owner = 0
    /\ <<0, "FALLBACK_PORTFOLIOS">> \in reads[1] \cap reads[2]

====
